---------------------------- MODULE Spec2Model ----------------------------
(***************************************************************************)
(* RustQuant: the fractional Ornstein-Uhlenbeck process and its            *)
(* Euler-Maruyama simulation (stochastics/fractional_ornstein_uhlenbeck.rs)*)
(* and the coupon construction of a coupon bond (instruments/bonds/bond.rs)*)
(*                                                                         *)
(* f64 values are modelled as exact rationals <<n, d>> in lowest terms     *)
(* with d > 0: the arithmetic of the source is kept operation by           *)
(* operation, IEEE rounding, infinities and NaN are not represented.       *)
(* Rust's 0-based index k of a Vec is index k + 1 of the sequence here.    *)
(***************************************************************************)
EXTENDS Integers, Sequences, FiniteSets

VARIABLES
    pc,         \* "init", "ready", "running", "returned", "panicked"
    new_call,   \* <<>> or <<the arguments new was called with>>
    fou,        \* <<>> or <<the FractionalOrnsteinUhlenbeck instance>>
    args,       \* <<>> or <<the arguments of the euler_maruyama call>>
    fgn_calls,  \* the calls made to fgn_cholesky, in order
    fgn,        \* the noise series bound at line 67
    dt,         \* the step size bound at line 69
    times,      \* the time grid bound at line 73
    paths,      \* the paths bound at line 72
    cur,        \* per thread: the path its path_generator call holds, or 0
    idx,        \* per thread: the loop variable t of that call
    taken,      \* the paths handed out by the iterator so far
    done,       \* the paths whose path_generator call has returned
    applied,    \* per path: the loop indices executed so far, in order
    result,     \* <<>> or <<the Trajectories returned>>
    bond        \* the CouponBond

vars == <<pc, new_call, fou, args, fgn_calls, fgn, dt, times, paths, cur, idx, taken,
          done, applied, result, bond>>

engine_vars == <<pc, new_call, fou, args, fgn_calls, fgn, dt, times, paths, cur, idx,
                 taken, done, applied, result>>

-----------------------------------------------------------------------------
(* Bounds of the model.                                                    *)

MaxSteps == 2
MaxPaths == 2
NumThreads == 2
MaxHalfYears == 6

-----------------------------------------------------------------------------
(* f64 arithmetic, as exact rationals.                                     *)

RECURSIVE Gcd(_, _)
Gcd(a, b) == IF b = 0 THEN a ELSE Gcd(b, a % b)

Abs(a) == IF a < 0 THEN -a ELSE a

RNorm(n, d) ==
    LET s == IF d < 0 THEN -1 ELSE 1
        g == Gcd(Abs(n), Abs(d))
    IN  <<(s * n) \div g, (s * d) \div g>>

R(i) == <<i, 1>>

RAdd(a, b) == RNorm(a[1] * b[2] + b[1] * a[2], a[2] * b[2])
RSub(a, b) == RNorm(a[1] * b[2] - b[1] * a[2], a[2] * b[2])
RMul(a, b) == RNorm(a[1] * b[1], a[2] * b[2])
RDiv(a, b) == RNorm(a[1] * b[2], a[2] * b[1])
RLt(a, b) == a[1] * b[2] < b[1] * a[2]
RLe(a, b) == a[1] * b[2] <= b[1] * a[2]


-----------------------------------------------------------------------------
(* The inputs the model draws from.                                        *)

Steps == 0..MaxSteps
Paths == 0..MaxPaths
Threads == 1..NumThreads

\* mu, sigma, theta, hurst offered to new by the simulation specification
MuSet == {R(0), R(1)}
SigmaSet == {R(-1), R(0), R(1)}
ThetaSet == {<<1, 2>>}
HurstSet == {<<7, 10>>, <<3, 2>>}

\* mu, sigma, theta, hurst offered to new by the construction specification
MuGrid == {R(-1), R(0), <<3, 20>>}
SigmaGrid == {R(-1), <<-1, 100>>, R(0), <<9, 20>>, R(2)}
ThetaGrid == {R(-1), R(0), <<1, 100>>}
HurstGrid == {R(-1), <<-1, 100>>, R(0), <<7, 10>>, R(1), <<101, 100>>, R(2)}

X0Set == {R(0), R(10)}
T0Set == {R(0), R(1)}
TnSet == {R(1), R(2)}
Bools == {TRUE, FALSE}

\* the values one increment of the noise series may take
Draws == {R(-1), <<1, 2>>}

-----------------------------------------------------------------------------
(* FractionalOrnsteinUhlenbeck                                             *)

\* as new_asserts, with the Hurst range taken as half-open (0.0..1.0)
new_asserts_half_open(sigma, hurst) ==
    /\ RLe(R(0), sigma)
    /\ RLe(R(0), hurst) /\ RLt(hurst, R(1))

\* the two assertions of new
new_asserts(sigma, hurst) ==
    /\ RLe(R(0), sigma)
    /\ RLe(R(0), hurst) /\ RLe(hurst, R(1))

new(mu, sigma, theta, hurst) ==
    /\ pc = "init"
    /\ new_call' = <<[mu |-> mu, sigma |-> sigma, theta |-> theta,
                      hurst |-> hurst]>>
    /\ IF new_asserts(sigma, hurst)
       THEN /\ fou' = <<[mu |-> mu, sigma |-> sigma, theta |-> theta,
                         hurst |-> hurst]>>
            /\ pc' = "ready"
       ELSE /\ fou' = <<>>
            /\ pc' = "panicked"
    /\ UNCHANGED <<args, fgn_calls, fgn, dt, times, paths, cur, idx, taken,
                   done, applied, result, bond>>

\* as drift, with the sign of the reversion term turned
drift_reversed(self, x, t) == RMul(self.theta, RSub(x, self.mu))

drift(self, x, t) == RMul(self.theta, RSub(self.mu, x))

diffusion(self, x, t) == self.sigma

\* Option<f64>: <<>> is None, <<v>> is Some(v)
jump(self, x, t) == <<>>

-----------------------------------------------------------------------------
(* FractionalBrownianMotion, the noise generator                           *)

FractionalBrownianMotion_new(hurst) == [hurst |-> hurst]

\* The series fgn_cholesky may return: one realization of n increments; a
\* request for no increments is rejected (the empty set: no series).
fgn_cholesky(fbm, n, t_n) ==
    IF n = 0 THEN {} ELSE [1..n -> Draws]

-----------------------------------------------------------------------------
(* euler_maruyama                                                          *)

step_size(t_0, t_n, n_steps) == RDiv(RSub(t_n, t_0), R(n_steps))

\* as init_paths, with the paths filled with 0.0 instead of x_0
init_paths_zeroed(x_0, n_steps, m_paths) ==
    [p \in 1..m_paths |-> [k \in 1..(n_steps + 1) |-> R(0)]]

init_paths(x_0, n_steps, m_paths) ==
    [p \in 1..m_paths |-> [k \in 1..(n_steps + 1) |-> x_0]]

\* as time_grid, with the range taken as 1..=n_steps + 1
time_grid_shifted(t_0, d, n_steps) ==
    [k \in 1..(n_steps + 1) |-> RAdd(t_0, RMul(d, R(k)))]

time_grid(t_0, d, n_steps) ==
    [k \in 1..(n_steps + 1) |-> RAdd(t_0, RMul(d, R(k - 1)))]

\* the arguments handed to fgn_cholesky at line 67
fgn_request(self, t_0, t_n, n_steps) ==
    [fbm |-> FractionalBrownianMotion_new(self.hurst), n |-> n_steps,
     t_n |-> t_n]

\* Lines 66-73: the noise is requested, then dt, paths and times are bound.
euler_maruyama(x_0, t_0, t_n, n_steps, m_paths, parallel) ==
    /\ pc = "ready"
    /\ LET req == fgn_request(fou[1], t_0, t_n, n_steps)
           series == fgn_cholesky(req.fbm, req.n, req.t_n)
       IN  /\ fgn_calls' = Append(fgn_calls, req)
           /\ args' = <<[x_0 |-> x_0, t_0 |-> t_0, t_n |-> t_n,
                         n_steps |-> n_steps, m_paths |-> m_paths,
                         parallel |-> parallel]>>
           /\ IF series = {}
              THEN /\ pc' = "panicked"
                   /\ UNCHANGED <<fgn, dt, times, paths, applied>>
              ELSE /\ pc' = "running"
                   /\ fgn' \in series
                   /\ dt' = step_size(t_0, t_n, n_steps)
                   /\ paths' = init_paths(x_0, n_steps, m_paths)
                   /\ times' = time_grid(t_0, step_size(t_0, t_n, n_steps),
                                         n_steps)
                   /\ applied' = [p \in 1..m_paths |-> <<>>]
    /\ UNCHANGED <<new_call, fou, cur, idx, taken, done, result, bond>>

\* The threads that run path_generator: the calling thread alone for
\* iter_mut, the pool's threads for par_iter_mut.
runners == IF args[1].parallel THEN Threads ELSE {1}

\* as next_items, with a path handed out again until its call has returned
next_items_unfinished ==
    LET left == (1..args[1].m_paths) \ done
    IN  IF args[1].parallel THEN left
        ELSE {p \in left : \A q \in left : p <= q}

\* The items the iterator may hand out next: iter_mut yields the paths in
\* index order, par_iter_mut yields each path once, in no fixed order.
next_items ==
    LET left == (1..args[1].m_paths) \ taken
    IN  IF args[1].parallel THEN left
        ELSE {p \in left : \A q \in left : p <= q}

\* as take, with a fresh noise series requested for every path
take_redraw(w, p) ==
    /\ pc = "running"
    /\ w \in runners
    /\ cur[w] = 0
    /\ p \in next_items
    /\ cur' = [cur EXCEPT ![w] = p]
    /\ idx' = [idx EXCEPT ![w] = 0]
    /\ taken' = taken \cup {p}
    /\ fgn_calls' = Append(fgn_calls, fgn_calls[1])
    /\ fgn' \in fgn_cholesky(fgn_calls[1].fbm, fgn_calls[1].n,
                              fgn_calls[1].t_n)
    /\ UNCHANGED <<pc, new_call, fou, args, dt, times, paths, done, applied,
                   result, bond>>

\* for_each hands a path to path_generator on thread w
take(w, p) ==
    /\ pc = "running"
    /\ w \in runners
    /\ cur[w] = 0
    /\ p \in next_items
    /\ cur' = [cur EXCEPT ![w] = p]
    /\ idx' = [idx EXCEPT ![w] = 0]
    /\ taken' = taken \cup {p}
    /\ UNCHANGED <<pc, new_call, fou, args, fgn_calls, fgn, dt, times, paths, done,
                   applied, result, bond>>

\* the right-hand side of lines 77-79 for loop index t
euler_update(self, path, t) ==
    RAdd(RAdd(path[t + 1],
              RMul(drift(self, path[t + 1], times[t + 1]), dt)),
         RMul(diffusion(self, path[t + 1], times[t + 1]), fgn[t + 1]))

\* the assignment of line 77: which path and element receive the value
path_store(ps, p, t, v) == [ps EXCEPT ![p][t + 2] = v]

\* One iteration of the loop of path_generator on thread w; after the last
\* iteration the call returns.
path_generator(w) ==
    /\ pc = "running"
    /\ cur[w] # 0
    /\ idx[w] < args[1].n_steps
    /\ LET p == cur[w]
           t == idx[w]
       IN  /\ paths' = path_store(paths, p, t, euler_update(fou[1], paths[p], t))
           /\ applied' = [applied EXCEPT ![p] = Append(@, t)]
           /\ IF t + 1 = args[1].n_steps
              THEN /\ cur' = [cur EXCEPT ![w] = 0]
                   /\ idx' = [idx EXCEPT ![w] = 0]
                   /\ done' = done \cup {p}
              ELSE /\ idx' = [idx EXCEPT ![w] = t + 1]
                   /\ UNCHANGED <<cur, done>>
    /\ UNCHANGED <<pc, new_call, fou, args, fgn_calls, fgn, dt, times, taken, result,
                   bond>>

\* as for_each_done, without the join: every path has been handed out
for_each_done_unjoined == taken = 1..args[1].m_paths

\* for_each has returned: every path's path_generator call has returned
for_each_done == done = 1..args[1].m_paths

\* path_generator run to its end on one path, from loop index t
RECURSIVE run_path(_, _, _)
run_path(self, path, t) ==
    IF t >= args[1].n_steps THEN path
    ELSE run_path(self, [path EXCEPT ![t + 2] = euler_update(self, path, t)],
                  t + 1)

\* iter_mut().for_each(path_generator): one whole call per path, in order
sequential_paths ==
    LET a == args[1]
        initial == init_paths(a.x_0, a.n_steps, a.m_paths)
    IN  [p \in 1..a.m_paths |-> run_path(fou[1], initial[p], 0)]

\* line 89
return_trajectories ==
    /\ pc = "running"
    /\ for_each_done
    /\ result' = <<[times |-> times, paths |-> paths]>>
    /\ pc' = "returned"
    /\ UNCHANGED <<new_call, fou, args, fgn_calls, fgn, dt, times, paths,
                   cur, idx, taken, done, applied, bond>>

-----------------------------------------------------------------------------
(* CouponBond                                                              *)

\* OffsetDateTime and Duration count whole hours here
days(n) == n * 24
whole_days(d) == d \div 24

\* PaymentFrequency, by the number its cast yields: payments per year
\* (SemiAnnually is 2: the 2.50 coupons of the example of lines 42-47)
Frequencies == {1, 2, 4}

EvaluationDates == {0, days(100)}
FaceValues == {R(100), R(1000)}
CouponRates == {<<1, 20>>, <<3, 20>>}
\* the bond's life, in half years of 365 days
Lives == {(days(365) * h) \div 2 : h \in 1..MaxHalfYears}

\* BTreeMap::new and BTreeMap::insert; the map is a function on its keys
map_new == <<>>
map_insert(m, k, v) ==
    [x \in (DOMAIN m) \cup {k} |-> IF x = k THEN v ELSE m[x]]

n_coupons(b) ==
    (whole_days(b.expiration_date - b.evaluation_date) \div 365)
        * b.coupon_frequency

\* lines 101-106
coupon_dates(b) ==
    [i \in 1..n_coupons(b) |->
        b.evaluation_date + (days(365 * i) \div b.coupon_frequency)]

\* lines 111-116: the range 1..n_coupons excludes its end
coupon_amounts(b) ==
    [i \in 1..(n_coupons(b) - 1) |->
        RDiv(RMul(b.face_value, b.coupon_rate), R(b.coupon_frequency))]

\* lines 119-121: zip stops at the shorter of the two
RECURSIVE insert_zipped(_, _, _, _)
insert_zipped(m, dates, amounts, i) ==
    IF i > Len(dates) \/ i > Len(amounts) THEN m
    ELSE insert_zipped(map_insert(m, dates[i], amounts[i]), dates, amounts,
                       i + 1)

\* lines 124-127
final_coupon(b) ==
    RMul(b.face_value,
         RAdd(R(1), RDiv(b.coupon_rate, R(b.coupon_frequency))))

construct_coupons ==
    /\ ~bond.constructed
    /\ bond' = [bond EXCEPT
         !.coupons = map_insert(
             insert_zipped(map_new, coupon_dates(bond), coupon_amounts(bond),
                           1),
             bond.expiration_date, final_coupon(bond)),
         !.constructed = TRUE]
    /\ UNCHANGED engine_vars

NoBond == [evaluation_date |-> 0, expiration_date |-> 0,
           coupon_rate |-> R(0), coupon_frequency |-> 1,
           face_value |-> R(0), coupons |-> <<>>, constructed |-> TRUE]

-----------------------------------------------------------------------------
(* Specifications                                                          *)

EngineInit ==
    /\ pc = "init"
    /\ new_call = <<>>
    /\ fou = <<>>
    /\ args = <<>>
    /\ fgn_calls = <<>>
    /\ fgn = <<>>
    /\ dt = R(0)
    /\ times = <<>>
    /\ paths = <<>>
    /\ cur = [w \in Threads |-> 0]
    /\ idx = [w \in Threads |-> 0]
    /\ taken = {}
    /\ done = {}
    /\ applied = <<>>
    /\ result = <<>>

Init ==
    /\ EngineInit
    /\ bond = NoBond

Next ==
    \/ \E mu \in MuSet, sigma \in SigmaSet, theta \in ThetaSet,
          hurst \in HurstSet : new(mu, sigma, theta, hurst)
    \/ \E x_0 \in X0Set, t_0 \in T0Set, t_n \in TnSet, n_steps \in Steps,
          m_paths \in Paths, parallel \in Bools :
          euler_maruyama(x_0, t_0, t_n, n_steps, m_paths, parallel)
    \/ \E w \in Threads, p \in 1..MaxPaths : take(w, p)
    \/ \E w \in Threads : path_generator(w)
    \/ return_trajectories

Spec == Init /\ [][Next]_vars

NextNew ==
    \E mu \in MuGrid, sigma \in SigmaGrid, theta \in ThetaGrid,
       hurst \in HurstGrid : new(mu, sigma, theta, hurst)

SpecNew == Init /\ [][NextNew]_vars

InitBond ==
    /\ EngineInit
    /\ \E e \in EvaluationDates, life \in Lives, f \in Frequencies,
          face \in FaceValues, rate \in CouponRates :
          bond = [evaluation_date |-> e, expiration_date |-> e + life,
                  coupon_rate |-> rate, coupon_frequency |-> f,
                  face_value |-> face, coupons |-> map_new,
                  constructed |-> FALSE]

NextBond == construct_coupons

SpecBond == InitBond /\ [][NextBond]_vars


-----------------------------------------------------------------------------
(* Properties                                                              *)

call == args[1]
trajectories == result[1]
returned == pc = "returned"

\* n_steps > 0, m_paths > 0 and t_n > t_0
valid_call ==
    /\ call.n_steps > 0
    /\ call.m_paths > 0
    /\ RLt(call.t_0, call.t_n)

\* Some(v) or None, as v or 0
or_zero(opt) == IF opt = <<>> THEN R(0) ELSE opt[1]

\* C1: a valid call returns, in either mode, m_paths paths of n_steps + 1
\* entries each, every path starting at x_0.
C1_PathsShape ==
    (returned /\ valid_call) =>
        /\ Len(trajectories.paths) = call.m_paths
        /\ \A p \in 1..call.m_paths :
              /\ Len(trajectories.paths[p]) = call.n_steps + 1
              /\ trajectories.paths[p][1] = call.x_0

C1_Witness ==
    /\ returned /\ valid_call
    /\ call.m_paths = MaxPaths /\ call.n_steps = MaxSteps
    /\ call.x_0 = R(10)
    /\ call.parallel
    /\ \E p \in 1..call.m_paths : trajectories.paths[p][2] # call.x_0

\* C2: for n_steps > 0 and t_n > t_0 the returned time grid has n_steps + 1
\* entries, is strictly increasing, starts at t_0 and ends at t_n.
C2_TimeGrid ==
    (returned /\ call.n_steps > 0 /\ RLt(call.t_0, call.t_n)) =>
        /\ Len(trajectories.times) = call.n_steps + 1
        /\ \A k \in 1..call.n_steps :
              RLt(trajectories.times[k], trajectories.times[k + 1])
        /\ trajectories.times[1] = call.t_0
        /\ trajectories.times[call.n_steps + 1] = call.t_n
        /\ \A k \in 0..call.n_steps :
              trajectories.times[k + 1] =
                  RAdd(call.t_0,
                       RMul(RDiv(RSub(call.t_n, call.t_0), R(call.n_steps)),
                            R(k)))

C2_Witness ==
    /\ returned /\ call.n_steps = MaxSteps
    /\ call.t_0 = R(1) /\ call.t_n = R(2)

\* C3: a call with n_steps = 0, m_paths = 0 or t_n <= t_0 is rejected before
\* any simulation work: no noise is requested, no grid or path is built and
\* no Trajectories is returned.
C3_InvalidCallRejected ==
    (args # <<>> /\ ~valid_call) =>
        /\ pc = "panicked"
        /\ fgn_calls = <<>>
        /\ times = <<>>
        /\ paths = <<>>
        /\ result = <<>>

\* C4: new fails, leaving no instance, when sigma < 0 or hurst is outside
\* [0, 1]; otherwise the instance holds the four arguments unchanged.
C4_NewValidates ==
    new_call # <<>> =>
        LET a == new_call[1]
        IN  IF RLt(a.sigma, R(0)) \/ RLt(a.hurst, R(0)) \/ RLt(R(1), a.hurst)
            THEN pc = "panicked" /\ fou = <<>>
            ELSE /\ pc # "panicked"
                 /\ fou = <<a>>
                 /\ RLe(R(0), fou[1].sigma)
                 /\ RLe(R(0), fou[1].hurst) /\ RLe(fou[1].hurst, R(1))

C4_Witness ==
    /\ new_call # <<>> /\ fou # <<>>
    /\ fou[1].sigma = R(0) /\ fou[1].hurst = R(1)

\* C5: in the returned Trajectories every entry i + 1 of every path is entry
\* i plus theta * (mu - entry i) * dt plus sigma * noise[i] plus the jump or
\* 0, and every loop index of every path was executed once, in order.
C5_EulerRecurrence ==
    returned =>
        \A p \in 1..call.m_paths :
            /\ \A i \in 0..(call.n_steps - 1) :
                  LET x == trajectories.paths[p][i + 1]
                      t == trajectories.times[i + 1]
                      d == RDiv(RSub(call.t_n, call.t_0), R(call.n_steps))
                  IN  trajectories.paths[p][i + 2] =
                          RAdd(RAdd(RAdd(x,
                              RMul(RMul(fou[1].theta, RSub(fou[1].mu, x)), d)),
                              RMul(fou[1].sigma, fgn[i + 1])),
                              or_zero(jump(fou[1], x, t)))
            /\ applied[p] = [i \in 1..call.n_steps |-> i - 1]

C5_Witness ==
    /\ returned
    /\ call.m_paths = MaxPaths /\ call.n_steps = MaxSteps
    /\ fou[1].mu = R(1) /\ call.x_0 = R(10)
    /\ fgn[1] # fgn[2]

\* C6: whatever the interleaving of the pool's threads, the Trajectories
\* returned in parallel mode is the one sequential execution yields for the
\* same model, arguments and noise.
C6_ModeEquivalence ==
    returned =>
        /\ trajectories.paths = sequential_paths
        /\ trajectories.times =
               time_grid(call.t_0, step_size(call.t_0, call.t_n, call.n_steps),
                         call.n_steps)

C6_Witness ==
    /\ returned /\ call.parallel
    /\ call.m_paths = MaxPaths /\ call.n_steps = MaxSteps
    /\ call.x_0 = R(10)

\* in a step of the path computation: at most one element changes, element
\* idx + 1 of the path the stepping thread holds; nothing else changes
step_frame ==
    (pc = "running" /\ pc' = "running") =>
        /\ fou' = fou /\ times' = times /\ fgn' = fgn /\ dt' = dt
        /\ DOMAIN paths' = DOMAIN paths
        /\ \A q \in DOMAIN paths : DOMAIN paths'[q] = DOMAIN paths[q]
        /\ \/ paths' = paths
           \/ \E w \in Threads :
                 /\ cur[w] # 0
                 /\ idx'[w] = idx[w] + 1 \/ cur'[w] = 0
                 /\ \A q \in DOMAIN paths : \A j \in DOMAIN paths[q] :
                       (q # cur[w] \/ j # idx[w] + 2) =>
                           paths'[q][j] = paths[q][j]

\* no two threads hold the same path
exclusive_paths ==
    \A w1, w2 \in Threads :
        (w1 # w2 /\ cur[w1] # 0) => cur[w1] # cur[w2]

\* C7: a step for path p changes only element i + 1 of path p and leaves
\* the other paths, the time grid, the noise and the parameters unchanged;
\* no two threads ever write the same path.
C7_Frame == [][step_frame]_vars /\ []exclusive_paths

C7_Witness ==
    /\ pc = "running" /\ call.parallel
    /\ \E w1, w2 \in Threads :
          /\ w1 # w2
          /\ cur[w1] # 0 /\ cur[w2] # 0
          /\ idx[w1] > 0 /\ idx[w2] > 0
          /\ paths[cur[w1]][2] # call.x_0

\* the noise was requested once, before any step, and stays as it is
noise_once ==
    /\ (pc \in {"running", "returned"}) => Len(fgn_calls) = 1
    /\ (\E p \in DOMAIN applied : applied[p] # <<>>) => Len(fgn_calls) = 1
    /\ returned =>
          \A p, q \in 1..call.m_paths :
              trajectories.paths[p] = trajectories.paths[q]

noise_kept ==
    /\ (pc = "running") => (fgn' = fgn /\ fgn_calls' = fgn_calls)
    /\ (fgn_calls' # fgn_calls) =>
          (\A p \in DOMAIN applied' : applied'[p] = <<>>)

\* C8: within one call the noise generator is invoked exactly once, before
\* any path is stepped, the series is used unchanged by every path, and all
\* returned paths are identical.
C8_SharedNoise == []noise_once /\ [][noise_kept]_vars

C8_Witness ==
    /\ returned
    /\ call.m_paths = MaxPaths /\ call.n_steps = MaxSteps
    /\ fou[1].sigma = R(1)
    /\ fgn[1] # fgn[2]
    /\ trajectories.paths[1][2] # call.x_0

\* C9: the noise is requested for exactly n_steps increments over a horizon
\* equal to t_n - t_0, so that horizon / steps equals dt.
C9_NoiseHorizon ==
    (fgn_calls # <<>> /\ call.n_steps > 0 /\ RLt(call.t_0, call.t_n)) =>
        /\ fgn_calls[1].n = call.n_steps
        /\ fgn_calls[1].t_n = RSub(call.t_n, call.t_0)
        /\ RDiv(fgn_calls[1].t_n, R(fgn_calls[1].n)) = dt

\* the coupon period of a bond, and the coupons its documentation describes
\* when its life is a whole number of periods
coupon_period(b) == days(365) \div b.coupon_frequency

documented_coupons(b) ==
    LET period == coupon_period(b)
        k == (b.expiration_date - b.evaluation_date) \div period
    IN  [d \in {b.evaluation_date + j * period : j \in 1..k} |->
            IF d = b.expiration_date
            THEN RMul(b.face_value,
                      RAdd(R(1), RDiv(b.coupon_rate, R(b.coupon_frequency))))
            ELSE RDiv(RMul(b.face_value, b.coupon_rate),
                      R(b.coupon_frequency))]

\* C10: construct_coupons yields one entry per coupon period between the
\* evaluation and the expiration date, face * rate / frequency before the
\* last and face * (1 + rate / frequency) at expiration; a 1.5 year bond
\* with semi-annual coupons has three entries.
C10_CouponsAsDocumented ==
    (/\ bond.constructed
     /\ (bond.expiration_date - bond.evaluation_date)
            % coupon_period(bond) = 0) =>
        bond.coupons = documented_coupons(bond)

=============================================================================
